---------------------------- MODULE Spec2Model ----------------------------
(***************************************************************************)
(* cargo-update-dep (src/src/main.rs): locate the manifests of a workspace,*)
(* rewrite a pinned dependency version line by line, run `cargo update`    *)
(* and print the list of manifests that were rewritten.                    *)
(*                                                                         *)
(* Text is modelled byte by byte: a string is a sequence of one-character  *)
(* strings, a file is the sequence of its bytes.                           *)
(***************************************************************************)
EXTENDS Integers, Sequences, FiniteSets, TLC

LF == "\n"
CR == "\r"
TAB == "\t"
SP == " "
EQ == "="
DQ == "\""

\* The regex item [\t\s]* of the two patterns, kept as one token.
WS_STAR == "[\\t\\s]*"

\* What the class [\t\s] matches among the bytes of the model.
IsWs(c) == c \in {SP, TAB, CR, LF}

-----------------------------------------------------------------------------
(* Bounds of the model *)

\* Longest value part (bytes after the key) of a generated one-line manifest.
MaxToks == 5
\* Most lines of a generated multi-line manifest.
MaxLines == 2
\* Most consecutive calls of update_manifest_path on one file.
MaxCalls == 2
\* Workspace members of a run of main.
NumManifests == 3
\* Most invocations of the program on the same workspace.
MaxRuns == 2
\* Most failures of the environment (I/O, subprocess) in one behaviour.
MaxFaults == 1

-----------------------------------------------------------------------------
(* Pure helpers: std and regex behaviour the code relies on *)

\* The buffer without one trailing CR (the CR of a CRLF terminator).
ChompCR(s) ==
    IF Len(s) > 0 /\ s[Len(s)] = CR THEN SubSeq(s, 1, Len(s) - 1) ELSE s

\* Index of the first LF of s at or after from, 0 when there is none.
NextLF(s, from) ==
    IF \E i \in from..Len(s) : s[i] = LF
    THEN CHOOSE i \in from..Len(s) :
            s[i] = LF /\ \A j \in from..(i - 1) : s[j] # LF
    ELSE 0

\* BufReader::lines(): the lines from byte `from` on.  A line ends at LF; the
\* LF and a CR right before it are dropped.  Bytes after the last LF are a
\* final line, kept as they are (a trailing CR included).
RECURSIVE ReadLines(_, _)
ReadLines(s, from) ==
    IF from > Len(s) THEN <<>>
    ELSE LET n == NextLF(s, from) IN
         IF n = 0 THEN << SubSeq(s, from, Len(s)) >>
         ELSE << ChompCR(SubSeq(s, from, n - 1)) >> \o ReadLines(s, n + 1)

Lines(content) == ReadLines(content, 1)

\* Regex matching of a pattern (a sequence of literal bytes and WS_STAR
\* items) against s, starting at byte i of s and item k of the pattern.
RECURSIVE MatchHere(_, _, _, _)
MatchHere(pat, k, s, i) ==
    IF k > Len(pat) THEN TRUE
    ELSE IF pat[k] = WS_STAR
         THEN \/ MatchHere(pat, k + 1, s, i)
              \/ i <= Len(s) /\ IsWs(s[i]) /\ MatchHere(pat, k, s, i + 1)
         ELSE i <= Len(s) /\ s[i] = pat[k] /\ MatchHere(pat, k + 1, s, i + 1)

\* Regex::is_match of a pattern that starts with ^ : a match at the start.
IsMatchAnchored(pat, s) == MatchHere(pat, 1, s, 1)

\* Regex::is_match of an unanchored pattern: a match anywhere.
IsMatchAnywhere(pat, s) == \E i \in 1..(Len(s) + 1) : MatchHere(pat, 1, s, i)

\* str::replace: every non-overlapping occurrence of `from`, left to right.
RECURSIVE Replace(_, _, _)
Replace(s, from, to) ==
    IF Len(s) < Len(from) THEN s
    ELSE IF SubSeq(s, 1, Len(from)) = from
         THEN to \o Replace(SubSeq(s, Len(from) + 1, Len(s)), from, to)
         ELSE << s[1] >> \o Replace(Tail(s), from, to)

\* str::replacen(.., 1): only the first occurrence (a faulty variant of Replace).
RECURSIVE ReplaceFirst(_, _, _)
ReplaceFirst(s, from, to) ==
    IF Len(s) < Len(from) THEN s
    ELSE IF SubSeq(s, 1, Len(from)) = from
         THEN to \o SubSeq(s, Len(from) + 1, Len(s))
         ELSE << s[1] >> \o ReplaceFirst(Tail(s), from, to)

\* [String]::join(sep).
RECURSIVE Join(_, _)
Join(lines, sep) ==
    IF Len(lines) = 0 THEN <<>>
    ELSE IF Len(lines) = 1 THEN lines[1]
         ELSE lines[1] \o sep \o Join(Tail(lines), sep)

-----------------------------------------------------------------------------
(* update_manifest_path *)

PACKAGE == << "p", "a", "c", "k", "a", "g", "e" >>

\* format!(r#"^[\t\s]*{}[\t\s]*="#, package); the ^ is IsMatchAnchored.
\* The name is spliced into the pattern as it is: a package name is made of
\* letters, digits, - and _, none a regex operator.
RePattern(pkg) == << WS_STAR >> \o pkg \o << WS_STAR, EQ >>

\* format!(r#"package[\t\s]*=[\t\s]*"{}""#, package)
Re2Pattern(pkg) ==
    PACKAGE \o << WS_STAR, EQ, WS_STAR, DQ >> \o pkg \o << DQ >>

\* format!(r#""{}""#, version)
Quoted(v) == << DQ >> \o v \o << DQ >>

\* A pattern 1 that lost its ^ (a faulty variant of ReIsMatch).
ReIsMatchUnanchored(line, pkg) == IsMatchAnywhere(RePattern(pkg), line)

\* re.is_match(&line)
ReIsMatch(line, pkg) == IsMatchAnchored(RePattern(pkg), line)

\* re2.is_match(&line)
Re2IsMatch(line, pkg) == IsMatchAnywhere(Re2Pattern(pkg), line)

\* The loop body without its `if re.is_match(..) || re2.is_match(..)`
\* (a faulty variant of PatchLine).
PatchLineUnguarded(line, pkg, v, nv) == Replace(line, Quoted(v), Quoted(nv))

\* The loop body with replacen(.., 1) (a faulty variant of PatchLine).
PatchLineFirst(line, pkg, v, nv) ==
    IF ReIsMatch(line, pkg) \/ Re2IsMatch(line, pkg)
    THEN ReplaceFirst(line, Quoted(v), Quoted(nv))
    ELSE line

\* The body of the read loop: the line pushed to `lines`.
PatchLine(line, pkg, v, nv) ==
    IF ReIsMatch(line, pkg) \/ Re2IsMatch(line, pkg)
    THEN LET line2 == Replace(line, Quoted(v), Quoted(nv)) IN
         IF line # line2 THEN line2 ELSE line
    ELSE line

\* The vector `lines` after the read loop.
PatchedLines(content, pkg, v, nv) ==
    LET ls == Lines(content) IN
    [i \in 1..Len(ls) |-> PatchLine(ls[i], pkg, v, nv)]

\* `updated` set on every call, whatever the lines (a faulty variant of Updated).
UpdatedAlways(content, pkg, v, nv) == TRUE

\* The flag `updated` after the read loop: some line != line2.
Updated(content, pkg, v, nv) ==
    LET ls == Lines(content) IN
    \E i \in 1..Len(ls) : ls[i] # PatchLine(ls[i], pkg, v, nv)

\* The bytes written without the second write_all (a faulty variant of Written).
WrittenNoNewline(lines) == Join(lines, << LF >>)

\* The two write_all calls: lines.join("\n"), then "\n".
Written(lines) == Join(lines, << LF >>) \o << LF >>

-----------------------------------------------------------------------------
(* State *)

VARIABLES
    package,        \* argument --dependency-name
    version,        \* argument --version
    new_version,    \* argument --new-version
    members,        \* environment: the manifest paths `cargo metadata` yields
    fs,             \* environment: the bytes of every manifest, by path
    pc,             \* position of main: locate, patch, resolve, report,
                    \* done (exit 0), panicked (exit 101); call in SpecPatch
    manifest_files, \* main's manifest_files
    cursor,         \* manifests the for loop of main has finished
    updated,        \* main's `updated`
    output,         \* the reports printed by step 4 of this run
    lock,           \* how update_cargo_lock ended in this run
    opened,         \* paths File::open succeeded on in this run
    calls,          \* history: the returned calls of update_manifest_path of
                    \* this run, as [path, before, after, ret]
    prev,           \* history: the `calls` of the run before this one
    start,          \* history: fs when this run began
    orig,           \* history: fs when the first run began
    run,            \* number of this run
    fault,          \* history: the failure that ended this run, or "none"
    faults          \* failures of the environment so far

vars == << package, version, new_version, members, fs, pc, manifest_files, cursor,
           updated, output, lock, opened, calls, prev, start, orig, run,
           fault, faults >>

args == << package, version, new_version, members >>

-----------------------------------------------------------------------------
(* Inputs *)

\* All sequences over alphabet of length at most n.
Strings(alphabet, n) == UNION { [1..k -> alphabet] : k \in 0..n }

\* Files of n lines of lineSet: every line but the last ends in LF or CRLF,
\* the last in nothing, LF or CRLF.
RECURSIVE Terminated(_, _)
Terminated(lineSet, n) ==
    IF n = 0 THEN { <<>> }
    ELSE { b \o l \o t : b \in Terminated(lineSet, n - 1), l \in lineSet,
                         t \in { << LF >>, << CR, LF >> } }

Files(lineSet, n) ==
    { b \o l \o t : b \in Terminated(lineSet, n - 1), l \in lineSet,
                    t \in { <<>>, << LF >>, << CR, LF >> } }

PackageNames == { << "f" >>, << "f", "b" >> }
OldVersions == { << "1" >>, << "1", "1" >> }
NewVersions == { << "1" >>, << "2" >> }

\* What a generated one-line manifest starts with.
Prefixes ==
    { <<>>,
      << "f", EQ >>,
      << TAB, "f", SP, CR, EQ >>,
      << "f", "b", EQ >>,
      << "b", "f", EQ >>,
      << "f", "-", "b", EQ >>,
      << "x", EQ, "{" >> \o PACKAGE \o << EQ, DQ, "f", DQ, "," >>,
      << "x", EQ, "{" >> \o PACKAGE \o << SP, EQ, TAB, DQ, "f", "b", DQ, "," >>,
      << "x", EQ, "{" >> \o PACKAGE \o << EQ, DQ, "b", "f", DQ, "," >> }

\* One-line manifests: a prefix, then any bytes among " and 1.
OneLiners ==
    { p \o v : p \in Prefixes, v \in Strings({ DQ, "1" }, MaxToks) }

\* The lines of the generated multi-line manifests.
SomeLines ==
    { <<>>,
      << "f", EQ, DQ, "1", DQ >>,
      << "f", "b", EQ, DQ, "1", DQ >>,
      << "#", CR >>,
      << "f", EQ, "[", DQ, "1", DQ, ",", DQ, "1", DQ, "]" >> }

PatchFiles ==
    Files(OneLiners, 1) \cup UNION { Files(SomeLines, n) : n \in 2..MaxLines }

\* The manifests of the workspace that main runs on.
\*   f = "1"                    (direct, LF)
\*   x={package="f",v="1"}      (renamed, no trailing newline)
\*   fb = "1"                   (another package, CRLF)
\*   f = "1" # "1"1"            (direct, the quoted version again in a comment)
WorkspaceFiles ==
    { << "f", SP, EQ, SP, DQ, "1", DQ, LF >>,
      << "x", EQ, "{" >> \o PACKAGE \o << EQ, DQ, "f", DQ, ",",
                                          "v", EQ, DQ, "1", DQ, "}" >>,
      << "f", "b", SP, EQ, SP, DQ, "1", DQ, CR, LF >>,
      << "f", SP, EQ, SP, DQ, "1", DQ, SP, "#", SP,
         DQ, "1", DQ, "1", DQ, LF >> }

-----------------------------------------------------------------------------
(* Initial states *)

InitRun ==
    /\ manifest_files = <<>>
    /\ cursor = 0
    /\ updated = <<>>
    /\ output = <<>>
    /\ lock = "none"
    /\ opened = {}
    /\ calls = <<>>
    /\ prev = <<>>
    /\ start = fs
    /\ orig = fs
    /\ run = 1
    /\ fault = "none"
    /\ faults = 0

\* main on a workspace of NumManifests members.
Init ==
    /\ package = << "f" >>
    /\ version = << "1" >>
    /\ new_version \in NewVersions
    /\ members = [k \in 1..NumManifests |-> k]
    /\ fs \in [1..NumManifests -> WorkspaceFiles]
    /\ pc = "locate"
    /\ InitRun

\* update_manifest_path alone, on one generated manifest.
InitPatch ==
    /\ package \in PackageNames
    /\ version \in OldVersions
    /\ new_version \in NewVersions
    /\ members = << 1 >>
    /\ fs \in [{1} -> PatchFiles]
    /\ pc = "call"
    /\ InitRun

-----------------------------------------------------------------------------
(* update_manifest_path as steps of the state machine *)

\* The call on path p returns: the file is rewritten when `updated` is set,
\* and the call is logged with its return value.
UpdateManifestPathReturns(p) ==
    LET before == fs[p]
        lines == PatchedLines(before, package, version, new_version)
        ret == Updated(before, package, version, new_version)
        after == IF ret THEN Written(lines) ELSE before
    IN  /\ fs' = [fs EXCEPT ![p] = after]
        /\ opened' = opened \cup {p}
        /\ calls' = Append(calls, [path |-> p, before |-> before,
                                   after |-> after, ret |-> ret])

\* What a failed write can leave of the bytes `data`, File::create having
\* emptied the file: nothing (the first write_all failed at once) or all but
\* the final newline (the second write_all failed).
PartialWrites(data) == { <<>>, SubSeq(data, 1, Len(data) - 1) }

-----------------------------------------------------------------------------
(* main *)

\* An .expect() that swallowed the error (a faulty variant of Expect).
ExpectIgnored(ok, next) == next

\* Result::expect / assert!: go on when ok, panic otherwise.
Expect(ok, next) == IF ok THEN next ELSE "panicked"

\* `updated` with the newest first (a faulty variant of Push).
PushFront(list, path, ret) == IF ret THEN << path >> \o list ELSE list

\* if update_manifest_path(..) { updated.push(manifest_file) }
Push(list, path, ret) == IF ret THEN Append(list, path) ELSE list

\* update_cargo_lock with its assert!(output.status.success()) left in
\* (a faulty variant of AfterCargoUpdate).
AfterCargoUpdateAsserted(status) == Expect(status = "ok", "report")

\* update_cargo_lock once `cargo update` has run: its output is printed and
\* its exit status is not looked at.
AfterCargoUpdate(status) == "report"

\* The manifest the for loop is at.
Current == manifest_files[cursor + 1]

InLoop == pc = "patch" /\ cursor < Len(manifest_files)

Abort(what, next) ==
    /\ faults < MaxFaults
    /\ faults' = faults + 1
    /\ fault' = what
    /\ pc' = Expect(FALSE, next)

\* Step 1: get_manifest_files returns the workspace members' manifests.
Locate ==
    /\ pc = "locate"
    /\ manifest_files' = members
    /\ pc' = Expect(TRUE, "patch")
    /\ UNCHANGED << args, fs, cursor, updated, output, lock, opened, calls,
                    prev, start, orig, run, fault, faults >>

\* Step 1 fails: cargo metadata cannot run or exits non-zero, its output is
\* not the expected JSON, or a member does not match file://(.*)\).
LocateFails ==
    /\ pc = "locate"
    /\ Abort("locate", "patch")
    /\ UNCHANGED << args, fs, manifest_files, cursor, updated, output, lock,
                    opened, calls, prev, start, orig, run >>

\* Step 2, one iteration: update_manifest_path returns.
Patch ==
    /\ InLoop
    /\ UpdateManifestPathReturns(Current)
    /\ updated' = Push(updated, Current,
                       Updated(fs[Current], package, version, new_version))
    /\ cursor' = cursor + 1
    /\ pc' = Expect(TRUE, "patch")
    /\ UNCHANGED << args, manifest_files, output, lock, prev, start, orig,
                    run, fault, faults >>

\* Step 2, File::open fails.
PatchOpenFails ==
    /\ InLoop
    /\ Abort("open", "patch")
    /\ UNCHANGED << args, fs, manifest_files, cursor, updated, output, lock,
                    opened, calls, prev, start, orig, run >>

\* Step 2, a line cannot be read (an I/O error, or bytes that are not UTF-8).
PatchReadFails ==
    /\ InLoop
    /\ Abort("read", "patch")
    /\ opened' = opened \cup {Current}
    /\ UNCHANGED << args, fs, manifest_files, cursor, updated, output, lock,
                    calls, prev, start, orig, run >>

\* Step 2, File::create fails: the file is as it was.
PatchCreateFails ==
    /\ InLoop
    /\ Updated(fs[Current], package, version, new_version)
    /\ Abort("create", "patch")
    /\ opened' = opened \cup {Current}
    /\ UNCHANGED << args, fs, manifest_files, cursor, updated, output, lock,
                    calls, prev, start, orig, run >>

\* Step 2, a write_all fails after File::create emptied the file.
PatchWriteFails ==
    /\ InLoop
    /\ Updated(fs[Current], package, version, new_version)
    /\ Abort("write", "patch")
    /\ opened' = opened \cup {Current}
    /\ \E left \in PartialWrites(Written(PatchedLines(fs[Current], package,
                                                      version, new_version))) :
           fs' = [fs EXCEPT ![Current] = left]
    /\ UNCHANGED << args, manifest_files, cursor, updated, output, lock,
                    calls, prev, start, orig, run >>

\* Step 3: update_cargo_lock; `cargo update` runs and exits with some status.
Resolve ==
    /\ pc = "patch"
    /\ cursor = Len(manifest_files)
    /\ \E status \in { "ok", "failed" } :
           /\ lock' = status
           /\ pc' = AfterCargoUpdate(status)
    /\ UNCHANGED << args, fs, manifest_files, cursor, updated, output, opened,
                    calls, prev, start, orig, run, fault, faults >>

\* Step 3, `cargo update` cannot be started: .expect("failed to execute
\* process") panics.
ResolveSpawnFails ==
    /\ pc = "patch"
    /\ cursor = Len(manifest_files)
    /\ lock' = "not started"
    /\ Abort("spawn", "report")
    /\ UNCHANGED << args, fs, manifest_files, cursor, updated, output, opened,
                    calls, prev, start, orig, run >>

\* Step 4: the Output is printed and main returns.
Report ==
    /\ pc = "report"
    /\ output' = Append(output, updated)
    /\ pc' = "done"
    /\ UNCHANGED << args, fs, manifest_files, cursor, updated, lock, opened,
                    calls, prev, start, orig, run, fault, faults >>

\* The program is run again, with the same arguments, after a run that
\* panicked.
Rerun ==
    /\ pc = "panicked"
    /\ run < MaxRuns
    /\ run' = run + 1
    /\ pc' = "locate"
    /\ manifest_files' = <<>>
    /\ cursor' = 0
    /\ updated' = <<>>
    /\ output' = <<>>
    /\ lock' = "none"
    /\ opened' = {}
    /\ prev' = calls
    /\ calls' = <<>>
    /\ start' = fs
    /\ fault' = "none"
    /\ UNCHANGED << args, fs, orig, faults >>

Next ==
    \/ Locate
    \/ LocateFails
    \/ Patch
    \/ PatchOpenFails
    \/ PatchReadFails
    \/ PatchCreateFails
    \/ PatchWriteFails
    \/ Resolve
    \/ ResolveSpawnFails
    \/ Report
    \/ Rerun

Spec == Init /\ [][Next]_vars

\* update_manifest_path is called on the generated manifest, again and again.
CallPatch ==
    /\ pc = "call"
    /\ Len(calls) < MaxCalls
    /\ UpdateManifestPathReturns(1)
    /\ UNCHANGED << args, pc, manifest_files, cursor, updated, output, lock,
                    prev, start, orig, run, fault, faults >>

NextPatch == CallPatch

SpecPatch == InitPatch /\ [][NextPatch]_vars

-----------------------------------------------------------------------------
(* Vocabulary of the properties *)

\* The logged calls of update_manifest_path.
Calls == { calls[k] : k \in 1..Len(calls) }

\* Where pat occurs in s.
Occ(s, pat) ==
    { j \in 1..(Len(s) - Len(pat) + 1) : SubSeq(s, j, j + Len(pat) - 1) = pat }

\* The occurrences a left-to-right substitution takes: an occurrence is taken
\* unless it overlaps a taken one that starts before it.
Taken(s, pat) ==
    CHOOSE S \in SUBSET Occ(s, pat) :
        \A j \in Occ(s, pat) :
            j \in S <=> ~ \E m \in S : m < j /\ j < m + Len(pat)

\* out is s with exactly the taken occurrences of pat replaced by to, every
\* other byte kept in place.
IsSubstituted(s, out, pat, to) ==
    LET S == Taken(s, pat)
        d == Len(to) - Len(pat)
        Shift(j) == d * Cardinality({ m \in S : m < j })
        Covered(j) == \E m \in S : m <= j /\ j < m + Len(pat)
    IN  /\ Len(out) = Len(s) + d * Cardinality(S)
        /\ \A j \in 1..Len(s) : ~ Covered(j) => out[j + Shift(j)] = s[j]
        /\ \A m \in S :
              SubSeq(out, m + Shift(m), m + Shift(m) + Len(to) - 1) = to

\* A line the two recognition patterns pick.
IsCandidate(line) == ReIsMatch(line, package) \/ Re2IsMatch(line, package)

\* The bytes of a bare key.
IsKeyChar(c) ==
    c \in { "f", "b", "x", "-", "_", "1", "2", "p", "a", "c", "k", "g", "e" }

\* The key a line declares: the bare-key bytes after the leading whitespace.
KeyOf(line) ==
    LET from == IF \E j \in 1..Len(line) : ~ IsWs(line[j])
                THEN CHOOSE j \in 1..Len(line) :
                        ~ IsWs(line[j]) /\ \A m \in 1..(j - 1) : IsWs(line[m])
                ELSE Len(line) + 1
        to == IF \E j \in from..Len(line) : ~ IsKeyChar(line[j])
              THEN (CHOOSE j \in from..Len(line) :
                        /\ ~ IsKeyChar(line[j])
                        /\ \A m \in from..(j - 1) : IsKeyChar(line[m])) - 1
              ELSE Len(line)
    IN  SubSeq(line, from, to)

\* The positions of the LF bytes of s, and the k-th of them.
LFs(s) == { j \in 1..Len(s) : s[j] = LF }
NthLF(s, k) == CHOOSE j \in LFs(s) : Cardinality({ m \in LFs(s) : m < j }) = k - 1

\* The lines of bytes in which every line ends in LF.
SplitLF(s) ==
    [k \in 1..Cardinality(LFs(s)) |->
        SubSeq(s, IF k = 1 THEN 1 ELSE NthLF(s, k - 1) + 1, NthLF(s, k) - 1)]

\* The lines of the file after call c: what the call wrote, line by line,
\* when it rewrote the file; the lines as read otherwise.
LinesAfter(c) == IF c.ret THEN SplitLF(c.after) ELSE Lines(c.after)

\* Every line followed by one LF.
RECURSIVE Terminate(_)
Terminate(ls) ==
    IF Len(ls) = 0 THEN <<>> ELSE ls[1] \o << LF >> \o Terminate(Tail(ls))

EndsInLF(s) == Len(s) > 0 /\ s[Len(s)] = LF

\* The manifest holds the dependency at the old version: a candidate line
\* with the quoted old version on it.
HasDependency(content) ==
    \E k \in 1..Len(Lines(content)) :
        /\ IsCandidate(Lines(content)[k])
        /\ Occ(Lines(content)[k], Quoted(version)) # {}

-----------------------------------------------------------------------------
(* Properties of update_manifest_path *)

\* C1 (selectivity): after a call the file has as many lines as before, and
\* every line that matches neither recognition pattern is the same line, at
\* the same position.
C1_Selectivity ==
    \A c \in Calls :
        /\ Len(LinesAfter(c)) = Len(Lines(c.before))
        /\ \A k \in 1..Len(Lines(c.before)) :
              ~ IsCandidate(Lines(c.before)[k])
                  => LinesAfter(c)[k] = Lines(c.before)[k]

\* A call rewrote a file that has a line outside both patterns with the
\* quoted old version on it.
C1_Witness ==
    \E c \in Calls :
        /\ c.ret
        /\ \E k \in 1..Len(Lines(c.before)) :
              /\ ~ IsCandidate(Lines(c.before)[k])
              /\ Occ(Lines(c.before)[k], Quoted(version)) # {}

\* C2 (idempotence): a second call with the same arguments finds no quoted
\* old version on a candidate line, changes nothing and returns false.
C2_Idempotence ==
    Len(calls) >= 2 =>
        /\ version # new_version => ~ HasDependency(calls[2].before)
        /\ calls[2].ret = FALSE
        /\ calls[2].after = calls[1].after

\* C3 (substitution): on a candidate line the output is the input with the
\* occurrences of the quoted old version replaced by the quoted new version
\* (taken left to right, without overlap) and every other byte, the
\* package = "name" segment included, unchanged; a candidate line without
\* the quoted old version is unchanged and does not make the call return
\* true.
C3_Substitution ==
    \A c \in Calls :
        /\ \A k \in 1..Len(Lines(c.before)) :
              LET line == Lines(c.before)[k]
                  out == LinesAfter(c)[k]
              IN  IsCandidate(line) =>
                    /\ IsSubstituted(line, out, Quoted(version),
                                     Quoted(new_version))
                    /\ Re2IsMatch(line, package) => Re2IsMatch(out, package)
                    /\ Occ(line, Quoted(version)) = {} => out = line
        /\ c.ret => HasDependency(c.before)

\* A call rewrote a candidate line that holds the quoted old version twice.
C3_Witness ==
    \E c \in Calls :
        /\ c.ret
        /\ \E k \in 1..Len(Lines(c.before)) :
              /\ IsCandidate(Lines(c.before)[k])
              /\ Cardinality(Taken(Lines(c.before)[k], Quoted(version))) = 2
              /\ LinesAfter(c)[k] # Lines(c.before)[k]

\* C4 (no spurious match): a line whose key holds the package name without
\* being it, and which has no package = "name" segment, is left as it is,
\* the quoted old version on it or not.
C4_NoSpuriousMatch ==
    \A c \in Calls :
        \A k \in 1..Len(Lines(c.before)) :
            LET line == Lines(c.before)[k] IN
            ( /\ KeyOf(line) # package
              /\ Occ(KeyOf(line), package) # {}
              /\ ~ Re2IsMatch(line, package) )
                => LinesAfter(c)[k] = line

\* A call with differing versions left alone a line with the quoted old
\* version whose key only contains the package name.
C4_Witness ==
    \E c \in Calls :
        /\ version # new_version
        /\ c.ret = FALSE
        /\ \E k \in 1..Len(Lines(c.before)) :
              /\ KeyOf(Lines(c.before)[k]) # package
              /\ Occ(KeyOf(Lines(c.before)[k]), package) # {}
              /\ Occ(Lines(c.before)[k], Quoted(version)) # {}
              /\ LinesAfter(c)[k] = Lines(c.before)[k]

\* C9 (rewrite only on change): the call returns true, and writes the file,
\* exactly when a candidate line holds the quoted old version and the new
\* version differs; when it returns false the bytes of the file are those
\* of before.
C9_RewriteOnlyOnChange ==
    \A c \in Calls :
        /\ c.ret <=> (version # new_version /\ HasDependency(c.before))
        /\ c.ret <=> (LinesAfter(c) # Lines(c.before))
        /\ ~ c.ret => c.after = c.before

\* A call returned false on a file with a candidate line and no trailing
\* newline, and on one with a CRLF.
C9_Witness ==
    /\ \E c \in Calls :
          /\ ~ c.ret
          /\ ~ EndsInLF(c.before)
          /\ \E k \in 1..Len(Lines(c.before)) : IsCandidate(Lines(c.before)[k])
    /\ \E c \in Calls :
          /\ ~ c.ret
          /\ Occ(c.before, << CR, LF >>) # {}
          /\ c.after = c.before

\* C10 (trailing newline): a rewritten file is its lines, each followed by
\* one LF; a file that had no trailing newline ends in exactly one.
C10_TrailingNewline ==
    \A c \in Calls :
        c.ret =>
            /\ c.after = Terminate(PatchedLines(c.before, package, version,
                                                new_version))
            /\ EndsInLF(c.after)
            /\ ~ EndsInLF(c.before) =>
                   ~ EndsInLF(SubSeq(c.after, 1, Len(c.after) - 1))

\* A call rewrote a file of several lines that had no trailing newline.
C10_Witness ==
    \E c \in Calls :
        /\ c.ret
        /\ ~ EndsInLF(c.before)
        /\ Len(Lines(c.before)) >= 2

-----------------------------------------------------------------------------
(* Properties of main *)

\* The paths of the first k logged calls that returned true, in call order.
RECURSIVE ReturnedTrue(_)
ReturnedTrue(k) ==
    IF k = 0 THEN <<>>
    ELSE ReturnedTrue(k - 1)
            \o (IF calls[k].ret THEN << calls[k].path >> ELSE <<>>)

\* The report a finished run must have printed.
ExpectedReport == << ReturnedTrue(Len(calls)) >>

\* The file a single call of update_manifest_path makes of content.
OnePass(content) ==
    IF version # new_version /\ HasDependency(content)
    THEN Terminate([k \in 1..Len(Lines(content)) |->
            IF IsCandidate(Lines(content)[k])
            THEN Replace(Lines(content)[k], Quoted(version),
                         Quoted(new_version))
            ELSE Lines(content)[k]])
    ELSE content

\* C5 (aggregate reporting): a run that reaches Report prints exactly the
\* located manifests whose patch returned true, that is whose content was
\* changed, in discovery order; a manifest without the dependency at the
\* old version is never in the list.
C5_AggregateReporting ==
    pc = "done" =>
        /\ manifest_files = members
        /\ Len(calls) = Len(members)
        /\ \A k \in 1..Len(calls) :
              /\ calls[k].path = members[k]
              /\ calls[k].ret <=> (calls[k].after # calls[k].before)
        /\ output = ExpectedReport
        /\ \A k \in 1..Len(output[1]) : HasDependency(start[output[1][k]])

\* A first run over three manifests, the first and the third with the
\* dependency and the second without, reported the first and the third.
C5_Witness ==
    /\ pc = "done"
    /\ run = 1
    /\ Len(members) >= 3
    /\ HasDependency(start[1])
    /\ ~ HasDependency(start[2])
    /\ HasDependency(start[3])
    /\ \A k \in 1..Len(output[1]) : output[1][k] \in { 1, 3 }
    /\ SubSeq(output[1], 1, 2) = << 1, 3 >>

\* C6 as stated: however the Resolve step fails, the run is not aborted and
\* ends with the report and exit status zero.
C6_AnyLockFailureNonFatal ==
    lock \in { "failed", "not started" } =>
        /\ pc \in { "report", "done" }
        /\ pc = "done" => output = ExpectedReport

\* C6 as amended: when `cargo update` runs and fails, the run goes on to the
\* report, which is the one a successful `cargo update` gives, and ends with
\* exit status zero; when `cargo update` cannot be started, the run panics
\* and prints no report.
C6_LockExitStatusNonFatal ==
    /\ lock \in { "ok", "failed" } =>
          /\ pc \in { "report", "done" }
          /\ fault = "none"
          /\ pc = "done" => output = ExpectedReport
    /\ lock = "not started" => pc = "panicked" /\ output = <<>>

\* A run whose `cargo update` failed ended with a report of a rewritten
\* manifest.
C6_Witness ==
    /\ lock = "failed"
    /\ pc = "done"
    /\ Len(output) = 1
    /\ Len(output[1]) > 0

\* C7 (fatal abort): when Locate fails no manifest is read or written; when
\* the patcher fails on the k-th manifest, the manifests before it keep what
\* their patch wrote, the manifests after it are neither opened nor
\* changed, `cargo update` is not run and nothing is reported.
C7_FatalAbort ==
    /\ fault = "locate" =>
          /\ pc = "panicked"
          /\ opened = {} /\ calls = <<>> /\ fs = start
          /\ lock = "none" /\ output = <<>>
    /\ fault \in { "open", "read", "create", "write" } =>
          /\ pc = "panicked"
          /\ Len(calls) = cursor
          /\ \A j \in 1..cursor :
                /\ calls[j].path = manifest_files[j]
                /\ fs[manifest_files[j]] = calls[j].after
          /\ \A j \in (cursor + 2)..Len(manifest_files) :
                /\ manifest_files[j] \notin opened
                /\ fs[manifest_files[j]] = start[manifest_files[j]]
          /\ lock = "none"
          /\ output = <<>>

\* A run failed on its second manifest after it had rewritten the first,
\* with a third manifest left.
C7_Witness ==
    /\ fault \in { "open", "read", "create", "write" }
    /\ cursor = 1
    /\ calls[1].ret
    /\ fs[manifest_files[1]] # start[manifest_files[1]]
    /\ Len(manifest_files) >= 3

\* C8 (re-run after a partial failure): a run that follows runs which
\* panicked after changing some manifest leaves alone the manifests that the
\* run before it rewrote (their patch returns false, they are not reported)
\* and, when it completes, leaves every manifest as one uninterrupted run
\* on the original files leaves it.
C8_RerunCompletes ==
    (run > 1 /\ start # orig) =>
        /\ \A c \in Calls :
              (\E k \in 1..Len(prev) : prev[k].path = c.path /\ prev[k].ret)
                  => /\ c.ret = FALSE
                     /\ c.after = c.before
        /\ pc = "done" =>
              /\ \A p \in DOMAIN fs : fs[p] = OnePass(orig[p])
              /\ \A k \in 1..Len(prev) :
                    prev[k].ret =>
                        \A m \in 1..Len(output[1]) :
                            output[1][m] # prev[k].path

=============================================================================
